---- MODULE Spec2Model ----
(***************************************************************************)
(* A model of stonks.py: get_stock_history (date parsing, interval         *)
(* whitelist, two-year range check, slice arithmetic, request, market      *)
(* hours filter) and get_stock_sentiment (argument validation and query    *)
(* construction).                                                          *)
(*                                                                         *)
(* Strings the code parses are sequences of one-character strings.  A      *)
(* datetime is a record [year, month, day, tod]; tod = 0 is 00:00:00       *)
(* exactly and tod = k > 0 is the k-th later instant of that day.  An      *)
(* optional argument is a sequence: << >> is None, <<x>> is the value x.   *)
(* A row of the upstream table holds the fields of its time string (day,   *)
(* h, mi, s) and its volume; a comma-joined string is the sequence of its  *)
(* items and "," separators.                                               *)
(***************************************************************************)
EXTENDS Integers, Sequences, FiniteSets, TLC

VARIABLES pc, fn, args, reads, error, errInfo, http, response, result

vars == <<pc, fn, args, reads, error, errInfo, http, response, result>>

-----------------------------------------------------------------------------
(* Bounds of the model *)

\* instants told apart within one day: 0 (midnight exactly) .. MaxTod
MaxTod == 1
\* rows in an upstream response
MaxBars == 2
\* entries of a topics list
MaxTopics == 2
\* entries of a tickers list
MaxTickers == 2

-----------------------------------------------------------------------------
(* Calendar and datetime *)

IsLeap(y) == (y % 4 = 0 /\ y % 100 # 0) \/ y % 400 = 0

DaysIn(m, y) ==
    IF m = 2 THEN (IF IsLeap(y) THEN 29 ELSE 28)
    ELSE IF m \in {4, 6, 9, 11} THEN 30 ELSE 31

DateTime(y, m, d, t) == [year |-> y, month |-> m, day |-> d, tod |-> t]

\* datetime.__lt__ : lexicographic on (year, month, day, time of day)
Before(a, b) ==
    \/ a.year < b.year
    \/ a.year = b.year /\ a.month < b.month
    \/ a.year = b.year /\ a.month = b.month /\ a.day < b.day
    \/ a.year = b.year /\ a.month = b.month /\ a.day = b.day /\ a.tod < b.tod

\* datetime.replace(year=y) raises ValueError when the day does not exist
ReplaceYearFails(dt, y) == dt.day > DaysIn(dt.month, y)

ReplaceYear(dt, y) == [dt EXCEPT !.year = y]

\* the instant after dt
NextInstant(dt) ==
    IF dt.tod < MaxTod THEN [dt EXCEPT !.tod = dt.tod + 1]
    ELSE IF dt.day < DaysIn(dt.month, dt.year)
         THEN DateTime(dt.year, dt.month, dt.day + 1, 0)
    ELSE IF dt.month < 12 THEN DateTime(dt.year, dt.month + 1, 1, 0)
    ELSE DateTime(dt.year + 1, 1, 1, 0)

-----------------------------------------------------------------------------
(* Characters, formatting, parsing *)

DigitChars == <<"0", "1", "2", "3", "4", "5", "6", "7", "8", "9">>

IsDigit(c) == \E i \in 1..10 : DigitChars[i] = c

DigitVal(c) == (CHOOSE i \in 1..10 : DigitChars[i] = c) - 1

Digit(n) == DigitChars[n + 1]

Fmt2(n) == <<Digit((n \div 10) % 10), Digit(n % 10)>>

Fmt4(n) == <<Digit((n \div 1000) % 10), Digit((n \div 100) % 10),
             Digit((n \div 10) % 10), Digit(n % 10)>>

AllDigits(s) == \A i \in 1..Len(s) : IsDigit(s[i])

RECURSIVE NumVal(_)
NumVal(s) == IF s = << >> THEN 0
             ELSE 10 * NumVal(SubSeq(s, 1, Len(s) - 1)) + DigitVal(s[Len(s)])

\* %m : 1[0-2] | 0[1-9] | [1-9]
IsMonthField(s) ==
    /\ Len(s) \in {1, 2}
    /\ AllDigits(s)
    /\ NumVal(s) \in 1..12

\* %d : 3[0-1] | [1-2]\d | 0[1-9] | [1-9]
IsDayField(s) ==
    /\ Len(s) \in {1, 2}
    /\ AllDigits(s)
    /\ NumVal(s) \in 1..31

\* %Y : \d\d\d\d, and datetime needs year >= 1
IsYearField(s) == Len(s) = 4 /\ AllDigits(s) /\ NumVal(s) >= 1

\* positions of the character c in s
Positions(s, c) == {i \in 1..Len(s) : s[i] = c}

ParseFail == [ok |-> FALSE]

\* datetime.strptime(date, "%m/%Y")
ParseMonthYear(s) ==
    LET sl == Positions(s, "/") IN
    IF Cardinality(sl) # 1 THEN ParseFail
    ELSE LET p == CHOOSE i \in sl : TRUE
             mf == SubSeq(s, 1, p - 1)
             yf == SubSeq(s, p + 1, Len(s))
         IN IF IsMonthField(mf) /\ IsYearField(yf)
            THEN [ok |-> TRUE, dt |-> DateTime(NumVal(yf), NumVal(mf), 1, 0)]
            ELSE ParseFail

-----------------------------------------------------------------------------
(* get_stock_history *)

ValidIntervals == {"1min", "5min", "15min", "30min", "60min"}

\* line 37, left operand of `or`: date_obj > datetime.now()
IsFuture(dateObj, n1) == Before(n1, dateObj)

\* line 37, right operand: n2 is the datetime.now() that replace() is called
\* on, n3 the datetime.now() whose year is read
TwoYearsAgoFails(n2, n3) == ReplaceYearFails(n2, n3.year - 2)

IsTooOld(dateObj, n2, n3) == Before(dateObj, ReplaceYear(n2, n3.year - 2))

\* lines 36-38: "ok", "date_range" or the ValueError of replace()
RangeCheck(dateObj, n1, n2, n3) ==
    IF IsFuture(dateObj, n1) THEN "date_range"
    ELSE IF TwoYearsAgoFails(n2, n3) THEN "replace_day"
    ELSE IF IsTooOld(dateObj, n2, n3) THEN "date_range"
    ELSE "ok"

\* lines 42-46
SliceValue(dateObj, cur) ==
    (cur.year - dateObj.year) * 12 + (cur.month - dateObj.month)

\* lines 47-48; Python // and % floor, as \div and % do in TLA+
SliceYear(v) == ((v - 1) \div 12) + 1

SliceMonth(v) == ((v - 1) % 12) + 1

\* line 49
SliceStr(dateObj, cur) ==
    LET v == SliceValue(dateObj, cur) IN
    <<"year", SliceYear(v), "month", SliceMonth(v)>>

\* HistError with the interval checked before the date is parsed
HistErrorIntervalFirst(date, interval, n1, n2, n3) ==
    LET p == ParseMonthYear(date) IN
    IF interval \notin ValidIntervals THEN "interval"
    ELSE IF ~p.ok THEN "date_format"
    ELSE LET r == RangeCheck(p.dt, n1, n2, n3) IN
         IF r = "ok" THEN "none" ELSE r

\* lines 24-38: the first failing check, or "none"
HistError(date, interval, n1, n2, n3) ==
    LET p == ParseMonthYear(date) IN
    IF ~p.ok THEN "date_format"
    ELSE IF interval \notin ValidIntervals THEN "interval"
    ELSE LET r == RangeCheck(p.dt, n1, n2, n3) IN
         IF r = "ok" THEN "none" ELSE r

\* lines 52-53
HistRequest(ticker, date, interval, n4) ==
    [function |-> "TIME_SERIES_INTRADAY_EXTENDED",
     symbol   |-> ticker,
     interval |-> interval,
     slice    |-> SliceStr(ParseMonthYear(date).dt, n4),
     apikey   |-> "API_KEY"]

\* lines 75-78: the time column "YYYY-MM-DD HH:MM:SS" becomes the index
\* (a day and the seconds since its midnight); the other columns stay
format_stock_df(rows) ==
    [i \in 1..Len(rows) |->
        [day    |-> rows[i].day,
         secs   |-> rows[i].h * 3600 + rows[i].mi * 60 + rows[i].s,
         volume |-> rows[i].volume]]

\* line 64: "9:30" and "16:00" as seconds since midnight
MarketOpen == 9 * 3600 + 30 * 60

MarketClose == 16 * 3600

\* between_time that leaves the end of the window out
between_time_open_end(df, start, end) ==
    LET InWindow(bar) == start <= bar.secs /\ bar.secs < end
    IN SelectSeq(df, InWindow)

\* DataFrame.between_time(start, end), both ends included, rows kept in place
between_time(df, start, end) ==
    LET InWindow(bar) == start <= bar.secs /\ bar.secs <= end
    IN SelectSeq(df, InWindow)

\* lines 57-66
HistResult(rows, after_hours) ==
    LET df == format_stock_df(rows) IN
    IF ~after_hours THEN between_time(df, MarketOpen, MarketClose) ELSE df

-----------------------------------------------------------------------------
(* get_stock_sentiment *)

VALID_TOPICS ==
    {"blockchain", "earnings", "ipo", "mergers_and_acquisitions",
     "financial_markets", "economy_fiscal", "economy_monetary",
     "economy_macro", "finance", "life_sciences", "manufacturing",
     "real_estate", "retail_wholesale", "technology"}

ValidSorts == {"EARLIEST", "LATEST", "RELEVANCE"}

LimitDefault == 200

LimitMax == 200

Range(s) == {s[i] : i \in 1..Len(s)}

\* Python truth value of an optional string: None and "" are false
Truthy(opt) == opt # << >> /\ opt[1] # ""

\* the same for a string held as a sequence of characters
TruthyChars(opt) == opt # << >> /\ opt[1] # << >>

\* datetime.strptime(s, "%Y-%m-%d")
ParseYmd(s) ==
    LET da == Positions(s, "-") IN
    IF Cardinality(da) # 2 THEN ParseFail
    ELSE LET p == CHOOSE i \in da : \A j \in da : i <= j
             q == CHOOSE i \in da : \A j \in da : j <= i
             yf == SubSeq(s, 1, p - 1)
             mf == SubSeq(s, p + 1, q - 1)
             df == SubSeq(s, q + 1, Len(s))
         IN IF /\ IsYearField(yf) /\ IsMonthField(mf) /\ IsDayField(df)
               /\ NumVal(df) <= DaysIn(NumVal(mf), NumVal(yf))
            THEN [ok |-> TRUE,
                  dt |-> DateTime(NumVal(yf), NumVal(mf), NumVal(df), 0)]
            ELSE ParseFail

\* strftime("%Y%m%dT%H%M") of a parsed date: the time of day is midnight
FormatWire(dt) ==
    Fmt4(dt.year) \o Fmt2(dt.month) \o Fmt2(dt.day) \o <<"T">> \o Fmt2(0) \o Fmt2(0)

\* a join that writes a "," after every item, the last one too
JoinTrailing(items) ==
    [i \in 1..(2 * Len(items)) |-> IF i % 2 = 1 THEN items[(i + 1) \div 2] ELSE ","]

\* ",".join(items): the items with a "," between neighbours
RECURSIVE Join(_)
Join(items) ==
    IF items = << >> THEN << >>
    ELSE IF Len(items) = 1 THEN <<items[1]>>
    ELSE <<items[1], ",">> \o Join(Tail(items))

\* the value of limit in the body: the default when the caller gives none
LimitOf(a) == IF a.limit = << >> THEN LimitDefault ELSE a.limit[1]

\* lines 132-136: a truthy time_from/time_to must parse
TimeFails(opt) == TruthyChars(opt) /\ ~ParseYmd(opt[1]).ok

\* SentError that refuses a limit of exactly LimitMax
SentErrorStrictLimit(a) ==
    IF a.tickers = << >> /\ a.topics = << >> THEN "empty"
    ELSE IF a.topics # << >> /\ ~(Range(a.topics) \subseteq VALID_TOPICS)
         THEN "topics"
    ELSE IF Truthy(a.sort) /\ a.sort[1] \notin ValidSorts THEN "sort"
    ELSE IF LimitOf(a) >= LimitMax THEN "limit"
    ELSE IF TimeFails(a.time_from) THEN "time_format"
    ELSE IF TimeFails(a.time_to) THEN "time_format"
    ELSE "none"

\* lines 100-136: the first failing check, or "none"
SentError(a) ==
    IF a.tickers = << >> /\ a.topics = << >> THEN "empty"
    ELSE IF a.topics # << >> /\ ~(Range(a.topics) \subseteq VALID_TOPICS)
         THEN "topics"
    ELSE IF Truthy(a.sort) /\ a.sort[1] \notin ValidSorts THEN "sort"
    ELSE IF LimitOf(a) > LimitMax THEN "limit"
    ELSE IF TimeFails(a.time_from) THEN "time_format"
    ELSE IF TimeFails(a.time_to) THEN "time_format"
    ELSE "none"

\* an error message that lists the topics that are not valid
TopicsErrorInfoInvalid(a) == Range(a.topics) \ VALID_TOPICS

\* line 124: what the topics error message carries
TopicsErrorInfo(a) == VALID_TOPICS

\* lines 138-158: the query, parameter by parameter, in the order appended
SentRequest(a) ==
    <<  <<"function", "NEWS_SENTIMENT">>, <<"apikey", "API_KEY">>  >>
    \o (IF a.topics # << >> THEN << <<"topics", Join(a.topics)>> >> ELSE << >>)
    \o (IF a.tickers # << >> THEN << <<"tickers", Join(a.tickers)>> >> ELSE << >>)
    \o (IF Truthy(a.sort) THEN << <<"sort", a.sort[1]>> >> ELSE << >>)
    \o (IF TruthyChars(a.time_from)
        THEN << <<"time_from", FormatWire(ParseYmd(a.time_from[1]).dt)>> >>
        ELSE << >>)
    \o (IF TruthyChars(a.time_to)
        THEN << <<"time_to", FormatWire(ParseYmd(a.time_to[1]).dt)>> >>
        ELSE << >>)
    \o << <<"limit", LimitOf(a)>> >>

-----------------------------------------------------------------------------
(* Inputs *)

NowYears == {2024}

TargetYears == 2021..2025

\* the first and the last day of a month
SampleDays(m, y) == {1, DaysIn(m, y)}

Clocks ==
    {DateTime(y, m, d, t) :
        y \in NowYears, m \in 1..12, d \in 1..31, t \in 0..MaxTod}
    \cap {dt \in [year : NowYears, month : 1..12, day : 1..31, tod : 0..MaxTod] :
            dt.day \in SampleDays(dt.month, dt.year)}

Tickers == {"AAPL"}

DateStrings ==
    {Fmt2(m) \o <<"/">> \o Fmt4(y) : m \in 0..13, y \in TargetYears}
    \cup { <<"3", "/">> \o Fmt4(2024),
           Fmt4(2024) \o <<"-">> \o Fmt2(3),
           Fmt2(3) \o <<"/">> \o Fmt2(24),
           << >> }

Intervals == {"1min", "60min", "2min"}

SeqsUpTo(S, n) == UNION {[1..k -> S] : k \in 0..n}

RowTimes == { <<9, 29, 59>>, <<9, 30, 0>>, <<16, 0, 0>>, <<16, 0, 1>> }

Rows == {[day |-> 4, h |-> t[1], mi |-> t[2], s |-> t[3], volume |-> 100] :
            t \in RowTimes}

Responses == SeqsUpTo(Rows, MaxBars)

TickerLists == SeqsUpTo({"AAPL", "MSFT"}, MaxTickers)

TopicLists == SeqsUpTo({"earnings", "technology", "not_a_topic"}, MaxTopics)

SortOpts == {<< >>, <<"">>, <<"RELEVANCE">>, <<"latest">>}

LimitOpts == {<< >>, <<0>>, <<LimitMax>>, <<LimitMax + 1>>}

TimeOpts ==
    {<< >>, << << >> >>,
     << Fmt4(2024) \o <<"-">> \o Fmt2(3) \o <<"-">> \o Fmt2(1) >>,
     << Fmt4(2024) \o <<"-">> \o Fmt2(2) \o <<"-">> \o Fmt2(30) >>,
     << Fmt2(3) \o <<"/">> \o Fmt4(2024) >>}

TimeToOpts ==
    {<< >>,
     << Fmt4(2024) \o <<"-">> \o Fmt2(3) \o <<"-">> \o Fmt2(31) >>,
     << Fmt4(2024) \o <<"-">> \o Fmt2(4) \o <<"-">> \o Fmt2(31) >>}

-----------------------------------------------------------------------------
(* State machine: the caller invokes a function (its arguments are bound), *)
(* then the body runs to its return or its exception in one step.          *)

NoArgs == [none |-> TRUE]

Init ==
    /\ pc = "idle"
    /\ fn = "none"
    /\ args = NoArgs
    /\ reads = << >>
    /\ error = "none"
    /\ errInfo = {}
    /\ http = << >>
    /\ response = << >>
    /\ result = << >>

\* get_stock_history(ticker, date, interval, after_hours) is called
HistCall ==
    /\ pc = "idle"
    /\ \E t \in Tickers, d \in DateStrings, i \in Intervals, ah \in BOOLEAN :
        args' = [ticker |-> t, date |-> d, interval |-> i, after_hours |-> ah]
    /\ fn' = "history"
    /\ pc' = "called"
    /\ UNCHANGED <<reads, error, errInfo, http, response, result>>

\* the GET issued before the range check has been made
HistGetsBeforeRange(a, err, now) ==
    IF err \in {"none", "date_range"}
    THEN <<HistRequest(a.ticker, a.date, a.interval, now)>>
    ELSE << >>

\* the requests get_stock_history issues: none before validation has passed
HistGets(a, err, now) ==
    IF err = "none" THEN <<HistRequest(a.ticker, a.date, a.interval, now)>>
    ELSE << >>

\* the clock readings of lines 37 and 41, none when an earlier check raised
HistReads(a, n1, n2, n3, n4) ==
    IF ~ParseMonthYear(a.date).ok \/ a.interval \notin ValidIntervals THEN << >>
    ELSE IF IsFuture(ParseMonthYear(a.date).dt, n1) THEN <<n1>>
    ELSE IF RangeCheck(ParseMonthYear(a.date).dt, n1, n2, n3) # "ok"
         THEN <<n1, n2, n3>>
    ELSE <<n1, n2, n3, n4>>

\* lines 24-66 with every datetime.now() showing the same instant `now`
HistRun ==
    /\ pc = "called"
    /\ fn = "history"
    /\ \E now \in Clocks :
        LET err == HistError(args.date, args.interval, now, now, now)
            get == HistGets(args, err, now)
        IN /\ reads' = HistReads(args, now, now, now, now)
           /\ error' = err
           /\ http' = get
           /\ IF get = << >>
              THEN response' = << >> /\ result' = << >>
              ELSE \E rows \in Responses :
                    /\ response' = rows
                    /\ result' = HistResult(rows, args.after_hours)
    /\ errInfo' = {}
    /\ pc' = "done"
    /\ UNCHANGED <<fn, args>>

\* get_stock_sentiment(tickers, topics, time_from, time_to, sort, limit) is
\* called
SentCall ==
    /\ pc = "idle"
    /\ \E tk \in TickerLists, tp \in TopicLists, tf \in TimeOpts,
          tt \in TimeToOpts, so \in SortOpts, li \in LimitOpts :
        args' = [tickers |-> tk, topics |-> tp, time_from |-> tf,
                 time_to |-> tt, sort |-> so, limit |-> li]
    /\ fn' = "sentiment"
    /\ pc' = "called"
    /\ UNCHANGED <<reads, error, errInfo, http, response, result>>

\* the requests get_stock_sentiment issues
SentGets(a, err) == IF err = "none" THEN <<SentRequest(a)>> ELSE << >>

\* lines 100-163; the decoded body is returned as it came
SentRun ==
    /\ pc = "called"
    /\ fn = "sentiment"
    /\ LET err == SentError(args)
       IN /\ error' = err
          /\ errInfo' = IF err = "topics" THEN TopicsErrorInfo(args) ELSE {}
          /\ http' = SentGets(args, err)
    /\ pc' = "done"
    /\ UNCHANGED <<fn, args, reads, response, result>>

\* the caller takes the result or the exception; the next call starts afresh
Return ==
    /\ pc = "done"
    /\ pc' = "idle"
    /\ fn' = "none"
    /\ args' = NoArgs
    /\ reads' = << >>
    /\ error' = "none"
    /\ errInfo' = {}
    /\ http' = << >>
    /\ response' = << >>
    /\ result' = << >>

Next == HistCall \/ HistRun \/ SentCall \/ SentRun \/ Return

Spec == Init /\ [][Next]_vars

-----------------------------------------------------------------------------
(* get_stock_history with a clock that moves between its four readings:    *)
(* each datetime.now() is a step of its own and shows the instant of the   *)
(* previous reading or the one after it.                                   *)

\* rows in an upstream response when the clock moves
MaxRaceBars == 1

RaceResponses == SeqsUpTo(Rows, MaxRaceBars)

DateObj == ParseMonthYear(args.date).dt

\* what the clock may show at the next reading
Advance(n) == {n, NextInstant(n)}

Raise(err) ==
    /\ error' = err
    /\ pc' = "done"

\* lines 24-34: the two checks that read no clock
RaceParse ==
    /\ pc = "called"
    /\ fn = "history"
    /\ LET err == IF ~ParseMonthYear(args.date).ok THEN "date_format"
                  ELSE IF args.interval \notin ValidIntervals THEN "interval"
                  ELSE "none"
       IN IF err # "none" THEN Raise(err)
          ELSE error' = error /\ pc' = "read1"
    /\ UNCHANGED <<fn, args, reads, errInfo, http, response, result>>

\* line 37: date_obj > datetime.now()
RaceRead1 ==
    /\ pc = "read1"
    /\ \E n \in Clocks :
        /\ reads' = <<n>>
        /\ IF IsFuture(DateObj, n) THEN Raise("date_range")
           ELSE error' = error /\ pc' = "read2"
    /\ UNCHANGED <<fn, args, errInfo, http, response, result>>

\* line 37: the datetime.now() on which replace() is called
RaceRead2 ==
    /\ pc = "read2"
    /\ \E n \in Advance(reads[Len(reads)]) : reads' = Append(reads, n)
    /\ pc' = "read3"
    /\ UNCHANGED <<fn, args, error, errInfo, http, response, result>>

\* line 37: datetime.now().year, replace(year=...), date_obj < ...
RaceRead3 ==
    /\ pc = "read3"
    /\ \E n \in Advance(reads[Len(reads)]) :
        /\ reads' = Append(reads, n)
        /\ IF TwoYearsAgoFails(reads[2], n) THEN Raise("replace_day")
           ELSE IF IsTooOld(DateObj, reads[2], n) THEN Raise("date_range")
           ELSE error' = error /\ pc' = "read4"
    /\ UNCHANGED <<fn, args, errInfo, http, response, result>>

\* lines 41-53: current_date = datetime.now(), the slice, the GET
RaceSend ==
    /\ pc = "read4"
    /\ \E n \in Advance(reads[Len(reads)]) :
        /\ reads' = Append(reads, n)
        /\ http' = <<HistRequest(args.ticker, args.date, args.interval, n)>>
    /\ pc' = "sent"
    /\ UNCHANGED <<fn, args, error, errInfo, response, result>>

\* lines 54-66
RaceReceive ==
    /\ pc = "sent"
    /\ \E rows \in RaceResponses :
        /\ response' = rows
        /\ result' = HistResult(rows, args.after_hours)
    /\ pc' = "done"
    /\ UNCHANGED <<fn, args, reads, error, errInfo, http>>

NextRace ==
    \/ HistCall \/ RaceParse \/ RaceRead1 \/ RaceRead2 \/ RaceRead3
    \/ RaceSend \/ RaceReceive \/ Return

SpecRace == Init /\ [][NextRace]_vars

-----------------------------------------------------------------------------
(* Properties *)

HistDone == pc = "done" /\ fn = "history"

SentDone == pc = "done" /\ fn = "sentiment"

\* the ways of writing month m of year y as "MM/YYYY"
MonthYearStrings(m, y) ==
    {Fmt2(m) \o <<"/">> \o Fmt4(y)}
    \cup (IF m < 10 THEN {<<Digit(m), "/">> \o Fmt4(y)} ELSE {})

WellFormedStrings ==
    UNION {MonthYearStrings(m, y) : m \in 1..12, y \in TargetYears}

WellFormed(d) == d \in WellFormedStrings

\* the <<month, year>> a well-formed date names
TargetOf ==
    [d \in WellFormedStrings |->
        CHOOSE t \in (1..12) \X TargetYears : d \in MonthYearStrings(t[1], t[2])]

Target(d) == TargetOf[d]

TotalMonthsBack(d, now) ==
    (now.year - Target(d)[2]) * 12 + (now.month - Target(d)[1])

\* a call that got as far as the range check
RangeChecked == HistDone /\ WellFormed(args.date) /\ args.interval \in ValidIntervals

MonthsBack == TotalMonthsBack(args.date, reads[1])

SentSlice == http[1].slice

\* C1: every accepted target 0..24 months back is sent with a slice that has
\* 1 <= monthIndex <= 12 and yearIndex >= 1
C1_SliceInRange ==
    (RangeChecked /\ error = "none" /\ MonthsBack \in 0..24)
        => (SentSlice[4] \in 1..12 /\ SentSlice[2] >= 1)

\* C2: a target in the current calendar month is sent as slice year1month1
C2_CurrentMonthIsYear1Month1 ==
    (RangeChecked /\ error = "none" /\ MonthsBack = 0)
        => SentSlice = <<"year", 1, "month", 1>>

\* C3: for a well-formed date and a valid interval the date-range error is
\* raised exactly when the target is in the future or more than 24 months back
C3_RangeErrorIffOutsideWindow ==
    RangeChecked
        => ((error = "date_range") <=> (MonthsBack < 0 \/ MonthsBack > 24))

C5_GetOnlyAfterValidation ==
    /\ pc \in {"idle", "called"} => http = << >>
    /\ pc = "done" => Len(http) = (IF error = "none" THEN 1 ELSE 0)

C5_Witness ==
    /\ SentDone
    /\ error = "time_format"
    /\ args.tickers # << >>
    /\ http = << >>

\* a row's time of day lies in [09:30:00, 16:00:00], read off its fields
InSession(row) ==
    /\ row.h > 9 \/ (row.h = 9 /\ row.mi >= 30)
    /\ row.h < 16 \/ (row.h = 16 /\ row.mi = 0 /\ row.s = 0)

\* bar is row with its time as the index
BarOf(bar, row) ==
    /\ bar.day = row.day
    /\ bar.secs \div 3600 = row.h
    /\ (bar.secs \div 60) % 60 = row.mi
    /\ bar.secs % 60 = row.s
    /\ bar.volume = row.volume

\* the rows the caller is to get
Kept == {i \in 1..Len(response) : args.after_hours \/ InSession(response[i])}

\* the j-th smallest member of Kept
KeptAt(j) == CHOOSE i \in Kept : Cardinality({k \in Kept : k <= i}) = j

\* C6: without after_hours the result is exactly the bars with a time of day
\* in [09:30, 16:00], both ends included, in upstream order; with after_hours
\* it is every bar, in upstream order
C6_MarketHoursFilter ==
    (HistDone /\ error = "none") =>
        /\ Len(result) = Cardinality(Kept)
        /\ \A j \in 1..Len(result) : BarOf(result[j], response[KeptAt(j)])

C6_Witness ==
    /\ HistDone
    /\ error = "none"
    /\ ~args.after_hours
    /\ Len(response) = 2
    /\ response[1].h = 16 /\ response[1].s = 0
    /\ response[2].h = 9 /\ response[2].mi = 30
    /\ Len(result) = 2
    /\ result[1].secs > result[2].secs

TimesAbsent == args.time_from = << >> /\ args.time_to = << >>

InvalidTopics == {t \in Range(args.topics) : t \notin VALID_TOPICS}

Values(k) == {http[1][i][2] : i \in {j \in 1..Len(http[1]) : http[1][j][1] = k}}

HasKey(k) == Values(k) # {}

Occurrences(k) == Cardinality({j \in 1..Len(http[1]) : http[1][j][1] = k})

\* v is the items of list, in order, with a "," between neighbours
CommaJoined(v, list) ==
    /\ list # << >>
    /\ Len(v) = 2 * Len(list) - 1
    /\ \A i \in 1..Len(v) :
          v[i] = (IF i % 2 = 1 THEN list[(i + 1) \div 2] ELSE ",")

\* "YYYY-MM-DD" for the days of the years the inputs use
YmdStrings ==
    {Fmt4(t[1]) \o <<"-">> \o Fmt2(t[2]) \o <<"-">> \o Fmt2(t[3]) :
        t \in {u \in NowYears \X (1..12) \X (1..31) : u[3] <= DaysIn(u[2], u[1])}}

TimeSupplied(opt) == opt \notin {<< >>, << << >> >>}

TimeOk(opt) == TimeSupplied(opt) => opt[1] \in YmdStrings

SortSupplied == args.sort \notin {<< >>, <<"">>}

\* the arguments other than topics and tickers pass their checks
OtherArgsValid ==
    /\ SortSupplied => args.sort[1] \in {"EARLIEST", "LATEST", "RELEVANCE"}
    /\ args.limit # << >> => args.limit[1] <= 200
    /\ TimeOk(args.time_from)
    /\ TimeOk(args.time_to)

\* what C9 says of the query but for limit
QueryCarriesSupplied ==
    /\ Len(http) = 1
    /\ Values("function") = {"NEWS_SENTIMENT"}
    /\ HasKey("apikey")
    /\ \A k \in {"function", "apikey", "topics", "tickers", "sort",
                 "time_from", "time_to", "limit"} : Occurrences(k) <= 1
    /\ HasKey("topics") <=> args.topics # << >>
    /\ \A v \in Values("topics") : CommaJoined(v, args.topics)
    /\ HasKey("tickers") <=> args.tickers # << >>
    /\ \A v \in Values("tickers") : CommaJoined(v, args.tickers)
    /\ HasKey("sort") <=> SortSupplied
    /\ \A v \in Values("sort") : v = args.sort[1]
    /\ HasKey("time_from") <=> TimeSupplied(args.time_from)
    /\ HasKey("time_to") <=> TimeSupplied(args.time_to)

\* C9 as claimed: any list of vocabulary topics, the empty one too, with any
\* tickers passes validation; the query carries the topics comma-joined in
\* order and each optional parameter, limit too, exactly when supplied
C9_QueryCarriesExactlySupplied ==
    (SentDone /\ InvalidTopics = {} /\ OtherArgsValid) =>
        /\ error = "none"
        /\ QueryCarriesSupplied
        /\ HasKey("limit") <=> args.limit # << >>

\* C9 amended: tickers and topics not both empty; limit is always in the
\* query, 200 when the caller gave none
C9_QueryCarriesSuppliedAndLimit ==
    (/\ SentDone /\ InvalidTopics = {} /\ OtherArgsValid
     /\ ~(args.tickers = << >> /\ args.topics = << >>)) =>
        /\ error = "none"
        /\ QueryCarriesSupplied
        /\ Values("limit") = {IF args.limit = << >> THEN 200 ELSE args.limit[1]}

C9_Witness ==
    /\ SentDone
    /\ error = "none"
    /\ args.topics = <<"technology", "earnings">>
    /\ args.tickers = << >>
    /\ args.limit = << >>
    /\ args.sort = <<"RELEVANCE">>
    /\ TimeSupplied(args.time_from)
    /\ Len(http) = 1

\* the outcome of a call had every reading of the clock shown d
SingleDateError(d) == HistError(args.date, args.interval, d, d, d)

\* C10: the range decision and the slice of a call are those of one and the
\* same current date, one the clock showed during the call
C10_OutcomeOfOneCurrentDate ==
    (RangeChecked /\ reads # << >>) =>
        \E d \in Range(reads) :
            /\ error = SingleDateError(d)
            /\ error = "none" => SentSlice = SliceStr(DateObj, d)

====
